---- MODULE Spec2Model ----
(***************************************************************************)
(* Qubit mapping: the initial placer (input_mapping.py), the list          *)
(* scheduling SWAP router (swap.py, schedule_quantum_circuit) and the      *)
(* look-ahead MCPE router (unoptswaps.py, MCPEOptimizer.optimize_circuit). *)
(*                                                                         *)
(* A topology is the coupling dictionary as written: a sequence of         *)
(* <<node, <<neighbour, ...>>>> entries, in the order of the dictionary's  *)
(* keys and of each adjacency list.  Physical and logical qubits are       *)
(* naturals.  A gate is <<control, target>>; inside the router a gate      *)
(* object is named by its position in the gate list (object identity).     *)
(*                                                                         *)
(* swap.py line 153 is indented by six columns, which matches no enclosing *)
(* block; the loop exit is modelled as the last statement of the body of   *)
(* `while True`, the only placement that keeps `break` inside the loop and *)
(* outside the SWAP selection.                                             *)
(***************************************************************************)
EXTENDS Integers, Sequences, FiniteSets, TLC

VARIABLES
    prog,             \* which program runs: "router", "optimizer", "placer"
    pc,               \* position in the program
    coupling_graph,   \* the topology as written
    gates,            \* the circuit's instructions, in program order
    n_qubits,         \* the circuit's register width (qc.num_qubits)
    initial_mapping,  \* the caller's mapping
    current_mapping,  \* the routing mapping
    distances,        \* the distance matrix built before the loop
    fron_list,        \* frontier gates
    act_list,         \* active gates
    frozen,           \* frozen flag per logical qubit
    dlist,            \* dependence list per logical qubit
    operations,       \* the output log (operations / new_circuit)
    executed_gates,   \* source positions of the gates committed, in order
    idx,              \* optimize_circuit's instruction index
    mapping,          \* the placer's mapping
    mapped_qubits,    \* the placer's used physical qubits
    queue,            \* the placer's BFS queue
    interaction_edges,  \* the graph builders' (q1, q2, first gate number) list
    first_interaction,  \* the graph builders' first gate number per pair
    interaction_graph,  \* the interaction graph (Gd, G) the builders make
    edge_counts         \* interaction_graph.py's number of gates per pair

vars == <<prog, pc, coupling_graph, gates, n_qubits, initial_mapping,
          current_mapping, distances, fron_list, act_list, frozen, dlist,
          operations, executed_gates, idx, mapping, mapped_qubits, queue,
          interaction_edges, first_interaction, interaction_graph,
                   edge_counts>>

\* ------------------------------------------------------------------ bounds

\* Logical qubits of the bounded circuits are 0 .. NumLogical-1.
NumLogical == 3

\* Longest bounded gate list.
MaxGates == 2

\* Longest bounded gate list handed to the placer.
MaxPlacerGates == 3

\* The longest output log a run of optimize_circuit is followed to.
MaxOperations == 20

Logical == 0 .. (NumLogical - 1)

\* ------------------------------------------------------------- sequences

Range(s) == {s[i] : i \in 1 .. Len(s)}

Contains(s, x) == \E i \in 1 .. Len(s) : s[i] = x

\* list.remove(x): drops the first element equal to x.
ListRemove(s, x) ==
    IF ~Contains(s, x) THEN s
    ELSE LET k == CHOOSE i \in 1 .. Len(s) :
                      s[i] = x /\ \A j \in 1 .. (i - 1) : s[j] # x
         IN  SubSeq(s, 1, k - 1) \o SubSeq(s, k + 1, Len(s))

\* The element of a one-element set.  Only({F(x) : x \in {e}}) is F(e) with e
\* evaluated once, however often F uses its argument.
Only(S) == CHOOSE x \in S : TRUE

\* s without its repeated elements, first occurrences kept in order.
RECURSIVE Dedup(_)
Dedup(seq) ==
    Only({IF s = <<>> THEN <<>>
          ELSE Only({IF Contains(front, s[Len(s)]) THEN front
                     ELSE Append(front, s[Len(s)])
                     : front \in {Dedup(SubSeq(s, 1, Len(s) - 1))}})
          : s \in {seq}})

RECURSIVE Flatten(_)
Flatten(seqs) ==
    Only({IF ss = <<>> THEN <<>> ELSE Head(ss) \o Flatten(Tail(ss))
          : ss \in {seqs}})

Injective(f) == \A a, b \in DOMAIN f : a # b => f[a] # f[b]

\* --------------------------------------------------------------- topology

\* The coupling dictionaries the bounded runs draw from.
Line3 == << <<0, <<1>>>>, <<1, <<0, 2>>>>, <<2, <<1>>>> >>

Line4 == << <<0, <<1>>>>, <<1, <<0, 2>>>>, <<2, <<1, 3>>>>, <<3, <<2>>>> >>

Star4 == << <<0, <<1, 2, 3>>>>, <<1, <<0>>>>, <<2, <<0>>>>, <<3, <<0>>>> >>

\* Star4 with its centre's adjacency list written in the opposite order.
Star4Rev == << <<0, <<3, 2, 1>>>>, <<1, <<0>>>>, <<2, <<0>>>>, <<3, <<0>>>> >>

Ring4 == << <<0, <<1, 3>>>>, <<1, <<0, 2>>>>, <<2, <<1, 3>>>>, <<3, <<2, 0>>>> >>

\* dict.keys(), in order.
Keys(cg) == [i \in 1 .. Len(cg) |-> cg[i][1]]

Nodes(cg) == Range(Keys(cg))

\* coupling_graph[node]: the adjacency list as written.
NeighborList(cg, node) ==
    LET k == CHOOSE i \in 1 .. Len(cg) : cg[i][1] = node IN cg[k][2]

\* The (node, neighbour) pairs in dictionary order.
DictPairs(cg) ==
    Flatten([i \in 1 .. Len(cg) |->
                [j \in 1 .. Len(cg[i][2]) |-> <<cg[i][1], cg[i][2][j]>>]])

\* The graph the dictionary describes: its set of undirected edges.
EdgeSet(cg) == {{e[1], e[2]} : e \in Range(DictPairs(cg))}

\* Hop distance in the graph with edge set E, by breadth-first balls;
\* -1 when b cannot be reached from a.
RECURSIVE BallDist(_, _, _, _, _)
BallDist(E, ball, b, k, n) ==
    IF b \in ball THEN k
    ELSE IF k >= n THEN -1
    ELSE Only({BallDist(E, next, b, k + 1, n)
               : next \in {ball \cup {y \in UNION E : \E x \in ball : {x, y} \in E}}})

HopDistance(cg, a, b) ==
    Only({BallDist(E, {a}, b, 0, Cardinality(Nodes(cg))) : E \in {EdgeSet(cg)}})

\* ------------------------------------------------ Python float arithmetic

\* A number of the router's score arithmetic: an int, float('inf'),
\* float('-inf') or nan.
Fin(n) == <<"fin", n>>

PInf == <<"inf", 0>>

NInf == <<"ninf", 0>>

NaN == <<"nan", 0>>

\* a - b
FSub(a, b) ==
    CASE a[1] = "nan" \/ b[1] = "nan" -> NaN
      [] a[1] = "fin" /\ b[1] = "fin" -> Fin(a[2] - b[2])
      [] a[1] = "fin" /\ b[1] = "inf" -> NInf
      [] a[1] = "fin" /\ b[1] = "ninf" -> PInf
      [] a[1] = "inf" -> IF b[1] = "inf" THEN NaN ELSE PInf
      [] OTHER -> IF b[1] = "ninf" THEN NaN ELSE NInf

\* a + b
FAdd(a, b) ==
    CASE a[1] = "nan" \/ b[1] = "nan" -> NaN
      [] a[1] = "fin" /\ b[1] = "fin" -> Fin(a[2] + b[2])
      [] a[1] = "fin" -> b
      [] b[1] = "fin" -> a
      [] OTHER -> IF a[1] = b[1] THEN a ELSE NaN

\* a > b
FGt(a, b) ==
    CASE a[1] = "nan" \/ b[1] = "nan" -> FALSE
      [] a[1] = "fin" /\ b[1] = "fin" -> a[2] > b[2]
      [] a[1] = "inf" -> b[1] # "inf"
      [] a[1] = "ninf" -> FALSE
      [] OTHER -> b[1] = "ninf"

\* ------------------------------------------- swap.py: the list scheduler

\* A faulty head(): the gate at the back of the list.
DLHead_last(q) == IF q = <<>> THEN 0 ELSE q[Len(q)]

\* DependenceList.head(): the gate at the front, 0 (None) when empty.
DLHead(q) == IF q = <<>> THEN 0 ELSE Head(q)

\* A faulty pop_front(): the gate at the back is removed.
DLPopFront_back(q) == IF q = <<>> THEN q ELSE SubSeq(q, 1, Len(q) - 1)

\* DependenceList.pop_front()
DLPopFront(q) == IF q = <<>> THEN q ELSE Tail(q)

\* A faulty construction: gate g joins the list of its control only.
RECURSIVE BuildDlist_control_only(_, _)
BuildDlist_control_only(gs, n) ==
    IF n = 0 THEN [q \in Logical |-> <<>>]
    ELSE [BuildDlist_control_only(gs, n - 1) EXCEPT ![gs[n][1]] = Append(@, n)]

\* The dependence lists built from the gate list: gate g joins the list of
\* its control and of its target.
RECURSIVE BuildDlist(_, _)
BuildDlist(gs, n) ==
    IF n = 0 THEN [q \in Logical |-> <<>>]
    ELSE LET d == BuildDlist(gs, n - 1)
             c == gs[n][1]
             t == gs[n][2]
             d1 == [d EXCEPT ![c] = Append(@, n)]
         IN  [d1 EXCEPT ![t] = Append(@, n)]

\* The matrix of lines 76-82: 0 on the diagonal, 1 for the listed
\* neighbours, float('inf') for every other pair.
RouterDistances(cg) ==
    [i \in Nodes(cg) |->
        [j \in Nodes(cg) |->
            IF {i, j} \in EdgeSet(cg) THEN Fin(1)
            ELSE IF i = j THEN Fin(0)
            ELSE PInf]]

\* A faulty exchange: the holder of p1 moves to p2 and the holder of p2 stays.
ExchangePhysical_oneway(m, p1, p2) ==
    [q \in DOMAIN m |-> IF m[q] = p1 THEN p2 ELSE m[q]]

\* The mapping with the holders of p1 and p2 exchanged.
ExchangePhysical(m, p1, p2) ==
    [q \in DOMAIN m |->
        IF m[q] = p1 THEN p2 ELSE IF m[q] = p2 THEN p1 ELSE m[q]]

RECURSIVE McpeSum(_, _, _, _, _)
McpeSum(gs, active, m, temp, dist) ==
    IF active = <<>> THEN Fin(0)
    ELSE LET g == gs[active[Len(active)]]
             old_dist == dist[m[g[1]]][m[g[2]]]
             new_dist == dist[temp[g[1]]][temp[g[2]]]
         IN  FAdd(McpeSum(gs, SubSeq(active, 1, Len(active) - 1), m, temp, dist),
                  FSub(old_dist, new_dist))

calculate_mcpe_cost(swap, gs, active, m, dist) ==
    McpeSum(gs, active, m, ExchangePhysical(m, swap[1], swap[2]), dist)

\* A faulty check: the logical operands are looked up, not their positions.
check_connectivity_unmapped(g, m, cg) ==
    Contains(NeighborList(cg, g[1]), g[2])

check_connectivity(g, m, cg) ==
    Contains(NeighborList(cg, m[g[1]]), m[g[2]])

\* get_reverse_mapping(mapping)[p]: the logical qubit on p, -1 when none.
get_reverse_mapping(m, p) ==
    IF \E q \in DOMAIN m : m[q] = p
    THEN CHOOSE q \in DOMAIN m : m[q] = p
    ELSE -1

\* A faulty Scan: a gate promoted to act_list is left in fron_list.
RECURSIVE ScanFrom_keeps_frontier(_, _, _)
ScanFrom_keeps_frontier(q, st, dl) ==
    IF q >= NumLogical THEN st
    ELSE LET gate == DLHead(dl[q])
             next ==
                 IF st.frozen[q] \/ gate = 0 THEN st
                 ELSE IF Contains(st.fron, gate)
                 THEN [fron |-> st.fron,
                       act |-> IF Contains(st.act, gate) THEN st.act
                               ELSE Append(st.act, gate),
                       frozen |-> [st.frozen EXCEPT ![q] = TRUE]]
                 ELSE [fron |-> Append(st.fron, gate),
                       act |-> st.act,
                       frozen |-> [st.frozen EXCEPT ![q] = TRUE]]
         IN  Only({ScanFrom_keeps_frontier(q + 1, st1, dl) : st1 \in {next}})

\* A faulty Scan: the qubit that puts a gate in fron_list is not frozen.
RECURSIVE ScanFrom_registers_unfrozen(_, _, _)
ScanFrom_registers_unfrozen(q, st, dl) ==
    IF q >= NumLogical THEN st
    ELSE LET gate == DLHead(dl[q])
             next ==
                 IF st.frozen[q] \/ gate = 0 THEN st
                 ELSE IF Contains(st.fron, gate)
                 THEN [fron |-> ListRemove(st.fron, gate),
                       act |-> IF Contains(st.act, gate) THEN st.act
                               ELSE Append(st.act, gate),
                       frozen |-> [st.frozen EXCEPT ![q] = TRUE]]
                 ELSE [fron |-> Append(st.fron, gate),
                       act |-> st.act,
                       frozen |-> st.frozen]
         IN  Only({ScanFrom_registers_unfrozen(q + 1, st1, dl) : st1 \in {next}})

\* Scan (lines 89-100) for qubits q .. NumLogical-1, in order, on the
\* scheduler state st = [fron, act, frozen].
RECURSIVE ScanFrom(_, _, _)
ScanFrom(q, st, dl) ==
    IF q >= NumLogical THEN st
    ELSE LET gate == DLHead(dl[q])
             next ==
                 IF st.frozen[q] \/ gate = 0 THEN st
                 ELSE IF Contains(st.fron, gate)
                 THEN [fron |-> ListRemove(st.fron, gate),
                       act |-> IF Contains(st.act, gate) THEN st.act
                               ELSE Append(st.act, gate),
                       frozen |-> [st.frozen EXCEPT ![q] = TRUE]]
                 ELSE [fron |-> Append(st.fron, gate),
                       act |-> st.act,
                       frozen |-> [st.frozen EXCEPT ![q] = TRUE]]
         IN  Only({ScanFrom(q + 1, st1, dl) : st1 \in {next}})

\* Execute (lines 103-113) over the first n gates of act_list, in order, on
\* st = [dlist, operations, executed, frozen, remove].
RECURSIVE ExecuteUpTo(_, _, _, _, _, _)
ExecuteUpTo(n, active, gs, m, cg, st) ==
    IF n = 0 THEN st
    ELSE Only({LET gate == active[n]
                   c == gs[gate][1]
                   t == gs[gate][2]
                   d1 == [s0.dlist EXCEPT ![c] = DLPopFront(@)]
                   d2 == [d1 EXCEPT ![t] = DLPopFront(@)]
                   f1 == [s0.frozen EXCEPT ![c] = FALSE]
               IN  IF check_connectivity(gs[gate], m, cg)
                   THEN [dlist |-> d2,
                         operations |-> Append(s0.operations, <<"cx", c, t>>),
                         executed |-> Append(s0.executed, gate),
                         frozen |-> [f1 EXCEPT ![t] = FALSE],
                         remove |-> Append(s0.remove, gate)]
                   ELSE s0
               : s0 \in {ExecuteUpTo(n - 1, active, gs, m, cg, st)}})

\* Lines 115-116: act_list.remove(gate) for every gate of gates_to_remove.
RECURSIVE RemoveAll(_, _)
RemoveAll(s, rem) ==
    IF rem = <<>> THEN s ELSE RemoveAll(ListRemove(s, Head(rem)), Tail(rem))

\* candi_list (lines 123-130): the pairs (i, j), i < j, in dictionary order.
candi_list(cg) ==
    SelectSeq(DictPairs(cg), LAMBDA e : e[1] < e[2])

\* mcpe_costs (lines 132-136): the candidates of positive cost, with their
\* cost, in insertion order.
mcpe_costs(cg, gs, active, m, dist) ==
    Only({SelectSeq(scored, LAMBDA e : FGt(e[2], Fin(0)))
          : scored \in {Dedup([k \in 1 .. Len(cands) |->
                                 <<cands[k],
                                   calculate_mcpe_cost(cands[k], gs, active, m, dist)>>])
                        : cands \in {candi_list(cg)}}})

\* max(items, key=cost): the first item no later item beats.
RECURSIVE MaxByCost(_)
MaxByCost(items) ==
    IF Len(items) = 1 THEN items[1]
    ELSE LET best == MaxByCost(SubSeq(items, 1, Len(items) - 1))
             last == items[Len(items)]
         IN  IF FGt(last[2], best[2]) THEN last ELSE best

best_swap(cg, gs, active, m, dist) ==
    Only({MaxByCost(items)[1] : items \in {mcpe_costs(cg, gs, active, m, dist)}})

\* ---- the inputs of a bounded routing run

\* Two-qubit gates on distinct logical qubits.
GatePairs == {<<c, t>> : c, t \in Logical} \ {<<q, q>> : q \in Logical}

GateLists == UNION {[1 .. n -> GatePairs] : n \in 0 .. MaxGates}

InjectiveMappings(cg) ==
    {m \in [Logical -> Nodes(cg)] : Injective(m)}

\* The mappings of a register as wide as the topology onto its qubits.
BijectiveMappings(cg) ==
    {m \in [0 .. (Cardinality(Nodes(cg)) - 1) -> Nodes(cg)] : Injective(m)}

RouterTopologies == {Line3, Line4}

\* Values of the variables a program does not use.
NoPlacer ==
    /\ mapping = [x \in {} |-> 0]
    /\ mapped_qubits = {}
    /\ queue = <<>>

\* The routers and the placer do not keep the graph builders' variables.
NoBuilder ==
    /\ interaction_edges = <<>>
    /\ first_interaction = <<>>
    /\ interaction_graph = <<>>
    /\ edge_counts = <<>>

InitRouter ==
    /\ prog = "router"
    /\ pc = "scan"
    /\ coupling_graph \in RouterTopologies
    /\ gates \in GateLists
    /\ n_qubits = NumLogical
    /\ initial_mapping \in InjectiveMappings(coupling_graph)
    /\ current_mapping = initial_mapping
    /\ distances = RouterDistances(coupling_graph)
    /\ fron_list = <<>>
    /\ act_list = <<>>
    /\ frozen = [q \in Logical |-> FALSE]
    /\ dlist = BuildDlist(gates, Len(gates))
    /\ operations = <<>>
    /\ executed_gates = <<>>
    /\ idx = 0
    /\ NoPlacer
    /\ NoBuilder

\* Lines 89-100.
Scan ==
    /\ prog = "router" /\ pc = "scan"
    /\ LET st == ScanFrom(0, [fron |-> fron_list, act |-> act_list,
                              frozen |-> frozen], dlist)
       IN  /\ fron_list' = st.fron
           /\ act_list' = st.act
           /\ frozen' = st.frozen
    /\ pc' = "execute"
    /\ UNCHANGED <<prog, coupling_graph, gates, n_qubits, initial_mapping,
                   current_mapping, distances, dlist, operations,
                   executed_gates, idx, mapping, mapped_qubits, queue,
                   interaction_edges, first_interaction, interaction_graph,
                   edge_counts>>

\* Lines 103-116.
Execute ==
    /\ prog = "router" /\ pc = "execute"
    /\ LET st == ExecuteUpTo(Len(act_list), act_list, gates, current_mapping,
                             coupling_graph,
                             [dlist |-> dlist, operations |-> operations,
                              executed |-> executed_gates, frozen |-> frozen,
                              remove |-> <<>>])
       IN  /\ dlist' = st.dlist
           /\ operations' = st.operations
           /\ executed_gates' = st.executed
           /\ frozen' = st.frozen
           /\ act_list' = RemoveAll(act_list, st.remove)
    /\ pc' = "swap"
    /\ UNCHANGED <<prog, coupling_graph, gates, n_qubits, initial_mapping,
                   current_mapping, distances, fron_list, idx, mapping,
                   mapped_qubits, queue,
                   interaction_edges, first_interaction, interaction_graph,
                   edge_counts>>

\* Lines 122-152: the SWAP selection, when act_list is not empty and some
\* candidate has a positive cost.
SelectSwap ==
    /\ prog = "router" /\ pc = "swap"
    /\ act_list # <<>>
    /\ mcpe_costs(coupling_graph, gates, act_list, current_mapping, distances) # <<>>
    /\ \E swap \in {best_swap(coupling_graph, gates, act_list, current_mapping,
                             distances)} :
       LET q1 == get_reverse_mapping(current_mapping, swap[1])
           q2 == get_reverse_mapping(current_mapping, swap[2])
       IN  /\ operations' = IF q1 # -1 /\ q2 # -1
                            THEN Append(operations, <<"swap", q1, q2>>)
                            ELSE operations
           /\ current_mapping' = ExchangePhysical(current_mapping, swap[1], swap[2])
    /\ pc' = "check"
    /\ UNCHANGED <<prog, coupling_graph, gates, n_qubits, initial_mapping,
                   distances, fron_list, act_list, frozen, dlist,
                   executed_gates, idx, mapping, mapped_qubits, queue,
                   interaction_edges, first_interaction, interaction_graph,
                   edge_counts>>

\* Lines 122 and 138: nothing is selected when act_list is empty or no
\* candidate has a positive cost.
NoSwap ==
    /\ prog = "router" /\ pc = "swap"
    /\ ~(/\ act_list # <<>>
         /\ mcpe_costs(coupling_graph, gates, act_list, current_mapping,
                       distances) # <<>>)
    /\ pc' = "check"
    /\ UNCHANGED <<prog, coupling_graph, gates, n_qubits, initial_mapping,
                   current_mapping, distances, fron_list, act_list, frozen,
                   dlist, operations, executed_gates, idx, mapping,
                   mapped_qubits, queue,
                   interaction_edges, first_interaction, interaction_graph,
                   edge_counts>>

\* Lines 153-154: the loop ends when fron_list is empty and repeats otherwise.
LoopExit ==
    /\ prog = "router" /\ pc = "check"
    /\ pc' = IF fron_list = <<>> THEN "done" ELSE "scan"
    /\ UNCHANGED <<prog, coupling_graph, gates, n_qubits, initial_mapping,
                   current_mapping, distances, fron_list, act_list, frozen,
                   dlist, operations, executed_gates, idx, mapping,
                   mapped_qubits, queue,
                   interaction_edges, first_interaction, interaction_graph,
                   edge_counts>>

\* --------------------------------------- unoptswaps.py: MCPEOptimizer

\* main(), lines 189-196.
ScenarioBGraph ==
    << <<0, <<1, 5>>>>, <<1, <<0, 2>>>>, <<2, <<1, 3>>>>, <<3, <<2, 4>>>>,
       <<4, <<3>>>>, <<5, <<0>>>> >>

\* main(), lines 209-216.
ScenarioBGates ==
    << <<0, 2>>, <<5, 2>>, <<0, 5>>, <<4, 0>>, <<0, 3>>, <<5, 0>>, <<3, 1>> >>

\* main(), line 206.
ScenarioBMapping == [i \in 0 .. 5 |-> i]

\* The node order of the nx.Graph that add_edge builds from the dictionary
\* (main, lines 198-203): nodes in order of first mention.
NxNodes(cg) == Dedup(Flatten(DictPairs(cg)))

\* The adjacency of node u in that graph: neighbours in order of the first
\* edge that joins them to u.
NxAdj(cg, u) ==
    Only({Dedup([k \in 1 .. Len(touching) |->
                    IF touching[k][1] = u THEN touching[k][2] ELSE touching[k][1]])
          : touching \in {SelectSeq(DictPairs(cg), LAMBDA e : e[1] = u \/ e[2] = u)}})

\* coupling_graph.edges(): for each node in node order, its neighbours that
\* are not an earlier node.
NxEdges(cg) ==
    Only({LET Pos(x) == CHOOSE i \in 1 .. Len(order) : order[i] = x
          IN  Flatten([i \in 1 .. Len(order) |->
                  Only({[j \in 1 .. Len(adj) |-> <<order[i], adj[j]>>]
                        : adj \in {SelectSeq(NxAdj(cg, order[i]),
                                             LAMBDA v : Pos(v) >= i)}})])
          : order \in {NxNodes(cg)}})

\* A faulty edge test on a directed graph: only the edges written from the
\* lower to the higher node exist.
has_edge_directed(cg, a, b) == {a, b} \in EdgeSet(cg) /\ a < b

\* A faulty edge test: any two connected nodes count as adjacent.
has_edge_connected(cg, a, b) == a # b /\ HopDistance(cg, a, b) >= 0

has_edge(cg, a, b) == {a, b} \in EdgeSet(cg) /\ a # b

\* dict(nx.all_pairs_shortest_path_length(coupling_graph))
dist_matrix(cg) ==
    [i \in Nodes(cg) |-> [j \in Nodes(cg) |-> HopDistance(cg, i, j)]]

\* get_affected_gates over the instructions from position start (1-based).
RECURSIVE get_affected_gates(_, _, _, _)
get_affected_gates(data, start, q1, q2) ==
    IF start > Len(data) THEN <<>>
    ELSE LET inst == data[start]
         IN  IF Len(inst) # 2
             THEN get_affected_gates(data, start + 1, q1, q2)
             ELSE IF inst[1] \in {q1, q2} \/ inst[2] \in {q1, q2}
             THEN <<inst>> \o get_affected_gates(data, start + 1, q1, q2)
             ELSE <<>>

\* A faulty exchange: q1 and q2 trade images and every other logical qubit is
\* moved onto the old image of q1.
ExchangeLogical_displacing(m, q1, q2) ==
    [q \in DOMAIN m |-> IF q = q1 THEN m[q2] ELSE m[q1]]

\* The mapping with the images of logical q1 and q2 exchanged.
ExchangeLogical(m, q1, q2) ==
    [q \in DOMAIN m |-> IF q = q1 THEN m[q2] ELSE IF q = q2 THEN m[q1] ELSE m[q]]

\* The loop of calculate_mcpe from gate k of the slice, with the running value.
RECURSIVE McpeLoop(_, _, _, _, _, _)
McpeLoop(slice, k, value, m, new_mapping, dist) ==
    IF k > Len(slice) THEN value
    ELSE Only({IF v <= 0 THEN v
               ELSE McpeLoop(slice, k + 1, v, m, new_mapping, dist)
               : v \in {value + (IF d > 0 THEN 1 ELSE d)
                        : d \in {dist[m[slice[k][1]]][m[slice[k][2]]]
                                   - dist[new_mapping[slice[k][1]]]
                                         [new_mapping[slice[k][2]]]}}})

calculate_mcpe(slice, q1, q2, m, dist) ==
    Only({McpeLoop(slice, 1, 0, m, new_mapping, dist)
          : new_mapping \in {ExchangeLogical(m, q1, q2)}})

\* Whether find_best_swap raises KeyError: some edge has an end that no
\* logical qubit holds.
ReverseMapFails(cg, m) ==
    {p \in UNION EdgeSet(cg) : get_reverse_mapping(m, p) = -1} # {}

\* The loop of find_best_swap over the first n edges: [swap, mcpe, found].
RECURSIVE BestSwapUpTo(_, _, _, _, _, _)
BestSwapUpTo(n, edges, data, start, m, dist) ==
    IF n = 0 THEN [swap |-> <<>>, mcpe |-> 0, found |-> FALSE]
    ELSE Only({Only({Only({IF affected # <<>> /\ (~best.found \/ mcpe > best.mcpe)
                           THEN [swap |-> q, mcpe |-> mcpe, found |-> TRUE]
                           ELSE best
                           : mcpe \in {calculate_mcpe(affected, q[1], q[2], m, dist)}})
                     : affected \in {get_affected_gates(data, start, q[1], q[2])}})
               : q \in {<<get_reverse_mapping(m, edges[n][1]),
                          get_reverse_mapping(m, edges[n][2])>>},
                 best \in {BestSwapUpTo(n - 1, edges, data, start, m, dist)}})

find_best_swap(cg, data, start, m, dist) ==
    Only({BestSwapUpTo(Len(edges), edges, data, start, m, dist)
          : edges \in {NxEdges(cg)}})

\* update_lists(idx, data) on front_list, idx 0-based.
update_front_list(front, i, data) ==
    LET removed == ListRemove(front, data[i + 1])
    IN  IF i + 1 < Len(data) /\ ~Contains(removed, data[i + 2])
        THEN Append(removed, data[i + 2])
        ELSE removed

OptimizerTopologies == {Line3, Line4}

\* Circuits with a single-qubit operation: alone, and on the control of a CX
\* between that CX and a later CX with the same control.
SingleQubitCircuits ==
    {<<<<q>>>> : q \in Logical}
        \cup UNION {{<<g1, <<g1[1]>>, g2>> : g2 \in {g \in GatePairs : g[1] = g1[1]}}
                    : g1 \in GatePairs}

InitOptimizer ==
    /\ prog = "optimizer"
    /\ pc = "loop"
    /\ \/ /\ coupling_graph \in OptimizerTopologies
          /\ gates \in GateLists
          /\ initial_mapping \in InjectiveMappings(coupling_graph)
                                   \cup BijectiveMappings(coupling_graph)
          /\ Logical \subseteq DOMAIN initial_mapping
       \/ /\ coupling_graph = ScenarioBGraph
          /\ gates = ScenarioBGates
          /\ initial_mapping = ScenarioBMapping
       \/ /\ coupling_graph \in OptimizerTopologies
          /\ gates \in SingleQubitCircuits
          /\ initial_mapping \in BijectiveMappings(coupling_graph)
          /\ Logical \subseteq DOMAIN initial_mapping
    /\ n_qubits = Cardinality(DOMAIN initial_mapping)
    /\ current_mapping = initial_mapping
    /\ distances = dist_matrix(coupling_graph)
    /\ fron_list = IF gates # <<>> THEN <<gates[1]>> ELSE <<>>
    /\ act_list = <<>>
    /\ frozen = [i \in 0 .. (Len(gates) - 1) |-> FALSE]
    /\ dlist = <<>>
    /\ operations = <<>>
    /\ executed_gates = <<>>
    /\ idx = 0
    /\ NoPlacer
    /\ NoBuilder

\* The instruction optimize_circuit is at, and its mapped operands.
OptAtTwoQubit == prog = "optimizer" /\ pc = "loop" /\ idx < Len(gates) /\ Len(gates[idx + 1]) = 2

mapped_control == current_mapping[gates[idx + 1][1]]

mapped_target == current_mapping[gates[idx + 1][2]]

\* Lines 175-178: the operand of an instruction that is not on two qubits.
OptAtSingleQubit == prog = "optimizer" /\ pc = "loop" /\ idx < Len(gates) /\ Len(gates[idx + 1]) # 2

mapped_qubit_initial == initial_mapping[gates[idx + 1][1]]

mapped_qubit == current_mapping[gates[idx + 1][1]]

\* Lines 166-172: a CX whose direction the topology has only reversed.
reversed_cx(mc, mt) ==
    <<<<"h", mc>>, <<"h", mt>>, <<"cx", mt, mc>>, <<"h", mc>>, <<"h", mt>>>>

\* Lines 143-159: the operands are not adjacent and a SWAP is found.
OptSwap ==
    /\ OptAtTwoQubit
    /\ Len(operations) < MaxOperations
    /\ ~has_edge(coupling_graph, mapped_control, mapped_target)
    /\ ~ReverseMapFails(coupling_graph, current_mapping)
    /\ \E best \in {find_best_swap(coupling_graph, gates, idx + 1,
                                    current_mapping, distances)} :
           /\ best.found
           /\ operations' = Append(operations,
                                   <<"swap", current_mapping[best.swap[1]],
                                     current_mapping[best.swap[2]]>>)
           /\ current_mapping' = ExchangeLogical(current_mapping, best.swap[1],
                                                 best.swap[2])
    /\ UNCHANGED <<prog, pc, coupling_graph, gates, n_qubits, initial_mapping,
                   distances, fron_list, act_list, frozen, dlist,
                   executed_gates, idx, mapping, mapped_qubits, queue,
                   interaction_edges, first_interaction, interaction_graph,
                   edge_counts>>

\* Lines 97-99: reverse_map[edge[...]] raises KeyError out of optimize_circuit.
OptKeyError ==
    /\ OptAtTwoQubit
    /\ ~has_edge(coupling_graph, mapped_control, mapped_target)
    /\ ReverseMapFails(coupling_graph, current_mapping)
    /\ pc' = "crash"
    /\ UNCHANGED <<prog, coupling_graph, gates, n_qubits, initial_mapping,
                   current_mapping, distances, fron_list, act_list, frozen,
                   dlist, operations, executed_gates, idx, mapping,
                   mapped_qubits, queue,
                   interaction_edges, first_interaction, interaction_graph,
                   edge_counts>>

\* Lines 161-183: the gate is appended when its operands are adjacent (and
\* passed over when they are not and no SWAP was found), then update_lists
\* and idx += 1.
OptEmit ==
    /\ OptAtTwoQubit
    /\ ~(/\ ~has_edge(coupling_graph, mapped_control, mapped_target)
         /\ (ReverseMapFails(coupling_graph, current_mapping)
             \/ find_best_swap(coupling_graph, gates, idx + 1, current_mapping,
                               distances).found))
    /\ IF has_edge(coupling_graph, mapped_control, mapped_target)
       THEN /\ operations' = Append(operations, <<"cx", mapped_control, mapped_target>>)
            /\ executed_gates' = Append(executed_gates, idx + 1)
       ELSE IF has_edge(coupling_graph, mapped_target, mapped_control)
       THEN /\ operations' = operations \o reversed_cx(mapped_control, mapped_target)
            /\ executed_gates' = Append(executed_gates, idx + 1)
       ELSE UNCHANGED <<operations, executed_gates>>
    /\ fron_list' = update_front_list(fron_list, idx, gates)
    /\ act_list' = ListRemove(act_list, gates[idx + 1])
    /\ idx' = idx + 1
    /\ UNCHANGED <<prog, pc, coupling_graph, gates, n_qubits, initial_mapping,
                   current_mapping, distances, frozen, dlist, mapping,
                   mapped_qubits, queue,
                   interaction_edges, first_interaction, interaction_graph,
                   edge_counts>>

\* Lines 175-183: a single-qubit operation is appended on the physical qubit
\* its operand is mapped to now, then update_lists and idx += 1.
OptSingle ==
    /\ OptAtSingleQubit
    /\ operations' = Append(operations, <<"u", mapped_qubit>>)
    /\ fron_list' = update_front_list(fron_list, idx, gates)
    /\ act_list' = ListRemove(act_list, gates[idx + 1])
    /\ idx' = idx + 1
    /\ UNCHANGED <<prog, pc, coupling_graph, gates, n_qubits, initial_mapping,
                   current_mapping, distances, frozen, dlist, executed_gates,
                   mapping, mapped_qubits, queue,
                   interaction_edges, first_interaction, interaction_graph,
                   edge_counts>>

\* Lines 127 and 185: the loop ends and the circuit and mapping are returned.
OptReturn ==
    /\ prog = "optimizer" /\ pc = "loop"
    /\ idx >= Len(gates)
    /\ pc' = "done"
    /\ UNCHANGED <<prog, coupling_graph, gates, n_qubits, initial_mapping,
                   current_mapping, distances, fron_list, act_list, frozen,
                   dlist, operations, executed_gates, idx, mapping,
                   mapped_qubits, queue,
                   interaction_edges, first_interaction, interaction_graph,
                   edge_counts>>

NextOptimizer == OptSwap \/ OptKeyError \/ OptEmit \/ OptSingle \/ OptReturn

SpecOptimizer == InitOptimizer /\ [][NextOptimizer]_vars

\* optimize_circuit is sequential code: it always takes its next step.
FairOptimizer == SpecOptimizer /\ WF_vars(NextOptimizer)

\* A triangle Q0-Q1-Q2 with two leaves, Q3 and Q4, on Q2.
Kite ==
    << <<0, <<1, 2>>>>, <<1, <<0, 2>>>>, <<2, <<0, 1, 3, 4>>>>, <<3, <<2>>>>,
       <<4, <<2>>>> >>

\* Circuits on five qubits whose first gate is not adjacent under the
\* identity mapping on Kite.
KiteCircuits ==
    {<< <<0, 3>>, <<2, 4>> >>, << <<0, 3>>, <<2, 3>>, <<2, 0>> >>}

\* optimize_circuit called on Kite with a register as wide as the topology.
InitOptimizerKite ==
    /\ prog = "optimizer"
    /\ pc = "loop"
    /\ coupling_graph = Kite
    /\ gates \in KiteCircuits
    /\ initial_mapping \in BijectiveMappings(coupling_graph)
    /\ n_qubits = Cardinality(DOMAIN initial_mapping)
    /\ current_mapping = initial_mapping
    /\ distances = dist_matrix(coupling_graph)
    /\ fron_list = IF gates # <<>> THEN <<gates[1]>> ELSE <<>>
    /\ act_list = <<>>
    /\ frozen = [i \in 0 .. (Len(gates) - 1) |-> FALSE]
    /\ dlist = <<>>
    /\ operations = <<>>
    /\ executed_gates = <<>>
    /\ idx = 0
    /\ NoPlacer
    /\ NoBuilder

\* optimize_circuit on the line topologies and on Kite.
InitOptimizerAll == InitOptimizer \/ InitOptimizerKite

SpecOptimizerAll == InitOptimizerAll /\ [][NextOptimizer]_vars

\* ------------------------------------ input_mapping.py: get_qubit_mapping

\* A two-node topology, smaller than the bounded circuits' register.
Line2 == << <<0, <<1>>>>, <<1, <<0>>>> >>

\* The nx.Graph that holds the nodes of `first` and then the edges of
\* `pairs`, added in order: its nodes in insertion order and, per node, its
\* neighbours in insertion order.
NxGraph(first, pairs) ==
    LET order == Dedup(first \o Flatten([k \in 1 .. Len(pairs) |-> pairs[k]]))
        Adj(u) ==
            LET touching == SelectSeq(pairs, LAMBDA e : e[1] = u \/ e[2] = u)
            IN  Dedup([k \in 1 .. Len(touching) |->
                          IF touching[k][1] = u THEN touching[k][2]
                          ELSE touching[k][1]])
    IN  [nodes |-> order, adj |-> [u \in Range(order) |-> Adj(u)]]

\* Gd (lines 67-80): one add_edge per two-qubit gate, in program order.
InteractionGraph(gs) == NxGraph(<<>>, SelectSeq(gs, LAMBDA g : Len(g) = 2))

\* Gc = nx.Graph(coupling_graph) (line 83): the keys, then the listed edges.
CouplingGraph(cg) == NxGraph(Keys(cg), DictPairs(cg))

GraphEdgeSet(G) ==
    UNION {{{u, G.adj[u][k]} : k \in 1 .. Len(G.adj[u])} : u \in Range(G.nodes)}

\* nx.shortest_path_length(G, a, b); -1 when there is no path.
shortest_path_length(G, a, b) ==
    BallDist(GraphEdgeSet(G), {a}, b, 0, Len(G.nodes))

IsConnected(G) ==
    /\ G.nodes # <<>>
    /\ \A a, b \in Range(G.nodes) : shortest_path_length(G, a, b) >= 0

SetMax(S) == CHOOSE x \in S : \A y \in S : y <= x

SetMin(S) == CHOOSE x \in S : \A y \in S : x <= y

Eccentricity(G, u) ==
    SetMax({shortest_path_length(G, u, v) : v \in Range(G.nodes)})

\* nx.center(G): the nodes of minimum eccentricity.
Center(G) ==
    LET radius == SetMin({Eccentricity(G, u) : u \in Range(G.nodes)})
    IN  {u \in Range(G.nodes) : Eccentricity(G, u) = radius}

Degree(G, u) == Len(G.adj[u])

\* Lines 36-57: among the centres, maximum degree, then minimum index.
find_center_with_max_degree(G) ==
    LET max_degree == SetMax({Degree(G, c) : c \in Center(G)})
    IN  SetMin({c \in Center(G) : Degree(G, c) = max_degree})

\* The discovery order of nx.bfs_edges(G, source), the source first:
\* `order` so far, with the nodes up to position i already expanded.
RECURSIVE BfsFrom(_, _, _)
BfsFrom(G, order, i) ==
    IF i > Len(order) THEN order
    ELSE BfsFrom(G,
                 order \o SelectSeq(G.adj[order[i]],
                                    LAMBDA v : ~Contains(order, v)),
                 i + 1)

bfs_traversal(G, source) == BfsFrom(G, <<source>>, 1)

\* list.sort(key) followed by [:1]: the first element of minimum key.
RECURSIVE SortKeepFirst(_, _, _, _)
SortKeepFirst(candi, Gc, from, k) ==
    IF candi = <<>> THEN <<>>
    ELSE IF k > Len(candi) THEN <<>>
    ELSE IF \A j \in 1 .. Len(candi) :
                /\ shortest_path_length(Gc, from, candi[k])
                       <= shortest_path_length(Gc, from, candi[j])
                /\ (j < k => shortest_path_length(Gc, from, candi[j])
                                 # shortest_path_length(Gc, from, candi[k]))
    THEN <<candi[k]>>
    ELSE SortKeepFirst(candi, Gc, from, k + 1)

\* Lines 124-126: narrow the candidates by every further reference.
RECURSIVE Narrow(_, _, _, _)
Narrow(candi, refs, m, Gc) ==
    IF refs = <<>> THEN candi
    ELSE Narrow(SortKeepFirst(candi, Gc, m[Head(refs)], 1), Tail(refs), m, Gc)

\* max(candi_locs, key=degree): the first candidate of maximum degree.
RECURSIVE MaxByDegree(_, _)
MaxByDegree(candi, Gc) ==
    IF Len(candi) = 1 THEN candi[1]
    ELSE LET best == MaxByDegree(SubSeq(candi, 1, Len(candi) - 1), Gc)
             last == candi[Len(candi)]
         IN  IF Degree(Gc, last) > Degree(Gc, best) THEN last ELSE best

\* A faulty choice: the unused physical qubit of lowest index, wherever it
\* lies in the topology.
select_location_any_unused(p, m, used, Gd, Gc) ==
    IF Range(Gc.nodes) \ used = {} THEN -1
    ELSE SetMin(Range(Gc.nodes) \ used)

\* Lines 120-134: the physical qubit chosen for logical p, -1 when the
\* statement raises (no reference, or max() of an empty list).
select_location(p, m, used, Gd, Gc) ==
    LET ref_locs == SelectSeq(Gd.adj[p], LAMBDA n : n \in DOMAIN m)
        candi_locs ==
            Narrow(SelectSeq(Gc.adj[m[ref_locs[1]]], LAMBDA x : x \notin used),
                   Tail(ref_locs), m, Gc)
    IN  IF ref_locs = <<>> THEN -1
        ELSE IF candi_locs = <<>> THEN -1
        ELSE IF Len(candi_locs) = 1 THEN candi_locs[1]
        ELSE MaxByDegree(candi_locs, Gc)

\* mapping[q] = p
Assign(m, q, p) == [x \in DOMAIN m \cup {q} |-> IF x = q THEN p ELSE m[x]]

EmptyMapping == [x \in {} |-> 0]

\* The placement loop (lines 118-134) run to its end: the outcome and the
\* mapping.
RECURSIVE PlaceAll(_, _, _, _, _)
PlaceAll(m, used, q, Gd, Gc) ==
    IF q = <<>> THEN [pc |-> "done", mapping |-> m]
    ELSE LET loc == select_location(Head(q), m, used, Gd, Gc)
         IN  IF loc = -1 THEN [pc |-> "crash", mapping |-> m]
             ELSE PlaceAll(Assign(m, Head(q), loc), used \cup {loc}, Tail(q),
                           Gd, Gc)

\* A faulty size test: a topology exactly as large as the register is refused.
TooFewQubits_strict(cg, nq) == Len(CouplingGraph(cg).nodes) <= nq

\* Line 85.
TooFewQubits(cg, nq) == Len(CouplingGraph(cg).nodes) < nq

\* get_qubit_mapping(qc, coupling_graph) as a function of its inputs.
get_qubit_mapping(gs, nq, cg) ==
    LET Gd == InteractionGraph(gs)
        Gc == CouplingGraph(cg)
        interaction_center == find_center_with_max_degree(Gd)
        coupling_center == find_center_with_max_degree(Gc)
    IN  IF TooFewQubits(cg, nq)
        THEN [pc |-> "config_error", mapping |-> EmptyMapping]
        ELSE IF ~IsConnected(Gd) \/ ~IsConnected(Gc)
        THEN [pc |-> "crash", mapping |-> EmptyMapping]
        ELSE PlaceAll(Assign(EmptyMapping, interaction_center, coupling_center),
                      {coupling_center},
                      Tail(bfs_traversal(Gd, interaction_center)), Gd, Gc)

PlacerGateLists == UNION {[1 .. n -> GatePairs] : n \in 0 .. MaxPlacerGates}

PlacerTopologies == {Line2, Line3, Star4, Star4Rev, Ring4}

\* The largest qubit index of a gate list, -1 when it is empty.
MaxIndex(gs) == SetMax({-1} \cup UNION {Range(gs[k]) : k \in 1 .. Len(gs)})

NoRouter ==
    /\ initial_mapping = <<>>
    /\ current_mapping = <<>>
    /\ distances = <<>>
    /\ fron_list = <<>>
    /\ act_list = <<>>
    /\ frozen = <<>>
    /\ dlist = <<>>
    /\ operations = <<>>
    /\ executed_gates = <<>>
    /\ idx = 0

InitPlacer ==
    /\ prog = "placer"
    /\ pc = "start"
    /\ coupling_graph \in PlacerTopologies
    /\ gates \in PlacerGateLists
    /\ n_qubits \in {k \in 1 .. (NumLogical + 1) : k > MaxIndex(gates)}
    /\ mapping = EmptyMapping
    /\ mapped_qubits = {}
    /\ queue = <<>>
    /\ NoRouter
    /\ NoBuilder

PlacerUnchanged ==
    UNCHANGED <<prog, coupling_graph, gates, n_qubits, initial_mapping,
                current_mapping, distances, fron_list, act_list, frozen,
                dlist, operations, executed_gates, idx,
                   interaction_edges, first_interaction, interaction_graph,
                   edge_counts>>

\* Lines 85-86: raise ValueError, the coupling graph has fewer qubits than
\* the circuit.
PlacerConfigError ==
    /\ prog = "placer" /\ pc = "start"
    /\ TooFewQubits(coupling_graph, n_qubits)
    /\ pc' = "config_error"
    /\ UNCHANGED <<mapping, mapped_qubits, queue>>
    /\ PlacerUnchanged

\* Lines 89-90: nx.center raises on an empty or disconnected graph.
PlacerCenterError ==
    /\ prog = "placer" /\ pc = "start"
    /\ ~TooFewQubits(coupling_graph, n_qubits)
    /\ ~(IsConnected(InteractionGraph(gates))
         /\ IsConnected(CouplingGraph(coupling_graph)))
    /\ pc' = "crash"
    /\ UNCHANGED <<mapping, mapped_qubits, queue>>
    /\ PlacerUnchanged

\* Lines 89-116: the seeds, the BFS order and the first assignment.
PlacerSeed ==
    /\ prog = "placer" /\ pc = "start"
    /\ ~TooFewQubits(coupling_graph, n_qubits)
    /\ IsConnected(InteractionGraph(gates))
    /\ IsConnected(CouplingGraph(coupling_graph))
    /\ LET Gd == InteractionGraph(gates)
           Gc == CouplingGraph(coupling_graph)
           interaction_center == find_center_with_max_degree(Gd)
           coupling_center == find_center_with_max_degree(Gc)
       IN  /\ mapping' = Assign(mapping, interaction_center, coupling_center)
           /\ mapped_qubits' = mapped_qubits \cup {coupling_center}
           /\ queue' = Tail(bfs_traversal(Gd, interaction_center))
    /\ pc' = "place"
    /\ PlacerUnchanged

\* Lines 118-134: one iteration of the placement loop.
PlaceQubit ==
    /\ prog = "placer" /\ pc = "place"
    /\ queue # <<>>
    /\ LET loc == select_location(Head(queue), mapping, mapped_qubits,
                                  InteractionGraph(gates),
                                  CouplingGraph(coupling_graph))
       IN  /\ loc # -1
           /\ mapping' = Assign(mapping, Head(queue), loc)
           /\ mapped_qubits' = mapped_qubits \cup {loc}
    /\ queue' = Tail(queue)
    /\ pc' = "place"
    /\ PlacerUnchanged

\* Line 132: max() of an empty candidate list raises ValueError.
PlaceRaises ==
    /\ prog = "placer" /\ pc = "place"
    /\ queue # <<>>
    /\ select_location(Head(queue), mapping, mapped_qubits,
                       InteractionGraph(gates),
                       CouplingGraph(coupling_graph)) = -1
    /\ queue' = Tail(queue)
    /\ pc' = "crash"
    /\ UNCHANGED <<mapping, mapped_qubits>>
    /\ PlacerUnchanged

\* Line 136.
PlacerReturn ==
    /\ prog = "placer" /\ pc = "place"
    /\ queue = <<>>
    /\ pc' = "done"
    /\ UNCHANGED <<mapping, mapped_qubits, queue>>
    /\ PlacerUnchanged

NextPlacer ==
    \/ PlacerConfigError
    \/ PlacerCenterError
    \/ PlacerSeed
    \/ PlaceQubit
    \/ PlaceRaises
    \/ PlacerReturn

SpecPlacer == InitPlacer /\ [][NextPlacer]_vars

\* ------------------------------------------------------ the three programs

NextRouter == Scan \/ Execute \/ SelectSwap \/ NoSwap \/ LoopExit

SpecRouter == InitRouter /\ [][NextRouter]_vars

\* The loop is sequential code: it always takes its next step.
FairRouter == SpecRouter /\ WF_vars(NextRouter)

\* The two routers.
InitRouting == InitRouter \/ InitOptimizer

NextRouting == NextRouter \/ NextOptimizer

SpecRouting == InitRouting /\ [][NextRouting]_vars

Init == InitRouter \/ InitOptimizer \/ InitPlacer

Next == NextRouter \/ NextOptimizer \/ NextPlacer

Spec == Init /\ [][Next]_vars

\* ------------------------------------------------------------ properties

\* The logical qubits that occur in some two-qubit gate.
UsedQubits == UNION {Range(gates[k]) : k \in {i \in 1 .. Len(gates) : Len(gates[i]) = 2}}

IsRouting == prog \in {"router", "optimizer"}

SwapCount == Cardinality({k \in 1 .. Len(operations) : operations[k][1] = "swap"})

Occurrences(s, x) == Cardinality({k \in 1 .. Len(s) : s[k] = x})

SharesQubit(g, h) == Range(gates[g]) \cap Range(gates[h]) # {}

\* C1: whenever a step commits two-qubit gates to the output, the physical
\* qubits the mapping of that moment gives to each gate's control and target
\* are joined by a topology edge (and the optimizer writes exactly that pair).
C1_EmittedGatesAdjacent ==
    [][\A k \in (Len(executed_gates) + 1) .. Len(executed_gates') :
          LET g == gates[executed_gates'[k]]
          IN  /\ current_mapping' = current_mapping
              /\ {current_mapping[g[1]], current_mapping[g[2]]}
                     \in EdgeSet(coupling_graph)
              /\ prog = "optimizer" =>
                     operations'[Len(operations')]
                         = <<"cx", current_mapping[g[1]], current_mapping[g[2]]>>]_vars

\* A gate committed after a SWAP changed the mapping.
C1_Witness ==
    /\ prog = "router"
    /\ \E i, j \in 1 .. Len(operations) :
           i < j /\ operations[i][1] = "swap" /\ operations[j][1] = "cx"
    /\ current_mapping # initial_mapping

\* C2: when the routing loop of schedule_quantum_circuit has ended, every
\* source gate is in the log exactly once and every dependence list is empty.
C2_AllGatesExecutedOnce ==
    (prog = "router" /\ pc = "done") =>
        /\ \A g \in 1 .. Len(gates) : Occurrences(executed_gates, g) = 1
        /\ Len(executed_gates) = Len(gates)
        /\ \A q \in Logical : dlist[q] = <<>>

\* C3: a gate is committed only after every earlier source gate that shares
\* a logical qubit with it, so each qubit's gates keep their source order.
C3_OrderPreserved ==
    IsRouting =>
        \A k \in 1 .. Len(executed_gates) :
            \A h \in 1 .. (executed_gates[k] - 1) :
                (Len(gates[h]) = 2 /\ SharesQubit(h, executed_gates[k])) =>
                    \E j \in 1 .. (k - 1) : executed_gates[j] = h

\* Two gates on a common qubit committed with a SWAP inserted.
C3_Witness ==
    /\ IsRouting
    /\ Len(executed_gates) >= 2
    /\ SharesQubit(executed_gates[1], executed_gates[2])
    /\ SwapCount >= 1

\* C4: the routing mapping is injective in every state.
C4_MappingInjective == IsRouting => Injective(current_mapping)

\* The mapping after SWAPs of both routers' kind have been applied.
C4_Witness ==
    /\ IsRouting
    /\ SwapCount >= 1
    /\ current_mapping # initial_mapping
    /\ Injective(current_mapping)

\* C5: the loop of schedule_quantum_circuit eventually ends.
C5_RouterTerminates == <>(pc = "done")

AllAdjacentInitially ==
    \A k \in 1 .. Len(gates) :
        Len(gates[k]) = 2 =>
            {initial_mapping[gates[k][1]], initial_mapping[gates[k][2]]}
                \in EdgeSet(coupling_graph)

\* C6: when every gate's operands are adjacent under the initial mapping, no
\* SWAP is logged and the mapping is never exchanged.
C6_ZeroSwaps ==
    (IsRouting /\ AllAdjacentInitially) =>
        /\ SwapCount = 0
        /\ current_mapping = initial_mapping

\* A finished run of two adjacent gates.
C6_Witness ==
    /\ IsRouting
    /\ AllAdjacentInitially
    /\ pc = "done"
    /\ Len(gates) >= 2
    /\ Len(executed_gates) = Len(gates)

IsScenarioB ==
    /\ prog = "optimizer"
    /\ coupling_graph = ScenarioBGraph
    /\ gates = ScenarioBGates
    /\ initial_mapping = ScenarioBMapping

ScenarioBFinished ==
    /\ pc = "done"
    /\ executed_gates = <<1, 2, 3, 4, 5, 6, 7>>
    /\ Cardinality({k \in 1 .. Len(operations) : operations[k][1] = "cx"}) = 7

\* C7: on Scenario B the run ends with all seven gates emitted; a SWAP
\* precedes the first gate; every emitted gate is on adjacent physical qubits.
C7_ScenarioB ==
    /\ IsScenarioB => <>ScenarioBFinished
    /\ [](IsScenarioB =>
            /\ operations # <<>> => operations[1][1] = "swap"
            /\ \A k \in 1 .. Len(operations) :
                   operations[k][1] = "cx" =>
                       {operations[k][2], operations[k][3]}
                           \in EdgeSet(ScenarioBGraph))

C7_Witness ==
    /\ IsScenarioB
    /\ ScenarioBFinished
    /\ SwapCount >= 1

SameGraph(a, b) == Nodes(a) = Nodes(b) /\ EdgeSet(a) = EdgeSet(b)

\* C8: the placement does not depend on the order in which the topology's
\* adjacency lists are written: every way of writing the same graph gives the
\* outcome of this run.
C8_OrderIndependent ==
    (prog = "placer" /\ pc = "done") =>
        \A other \in PlacerTopologies :
            SameGraph(other, coupling_graph) =>
                get_qubit_mapping(gates, n_qubits, other)
                    = [pc |-> "done", mapping |-> mapping]

PlacerEnded == prog = "placer" /\ pc \in {"done", "crash", "config_error"}

\* C9: for a circuit with at least one gate whose register fits the
\* topology, get_qubit_mapping returns an injective mapping whose domain is
\* the set of logical qubits used by two-qubit gates.
C9_CompleteInjective ==
    (PlacerEnded /\ gates # <<>>
        /\ n_qubits <= Cardinality(Nodes(coupling_graph))) =>
        /\ pc = "done"
        /\ DOMAIN mapping = UsedQubits
        /\ Injective(mapping)

\* C10 as claimed: the configuration error is raised exactly when the used
\* logical qubits outnumber the topology's qubits.
C10_ErrorIffUsedExceeds ==
    PlacerEnded =>
        ((pc = "config_error")
            <=> (Cardinality(UsedQubits) > Cardinality(Nodes(coupling_graph))))

\* C10 as amended: the configuration error is raised, with nothing placed,
\* exactly when the register width exceeds the topology's qubit count, which
\* includes every circuit whose used qubits outnumber the topology's.
C10_ErrorIffRegisterExceeds ==
    PlacerEnded =>
        /\ (pc = "config_error")
               <=> (n_qubits > Cardinality(Nodes(coupling_graph)))
        /\ pc = "config_error" => (DOMAIN mapping = {} /\ mapped_qubits = {})
        /\ Cardinality(UsedQubits) > Cardinality(Nodes(coupling_graph))
               => pc = "config_error"

C10_Witness ==
    /\ prog = "placer"
    /\ pc = "config_error"
    /\ Cardinality(UsedQubits) > Cardinality(Nodes(coupling_graph))

\* --------------------------------------------------- claims C11 .. C20

\* C11: when, after Execute, act_list is not empty and no candidate edge has
\* a positive cost, the router stops with a fatal error: it does not go on to
\* the loop's exit test.
C11_FatalWhenNoPositiveSwap ==
    [][(/\ prog = "router"
        /\ pc = "swap"
        /\ act_list # <<>>
        /\ mcpe_costs(coupling_graph, gates, act_list, current_mapping,
                      distances) = <<>>)
           => pc' \in {"fatal", "crash"}]_vars

\* The logical qubit the placement loop is about to place, its mapped
\* references, and the unused physical neighbours of the first one's image.
PlacingQubit == prog = "placer" /\ pc = "place" /\ queue # <<>>

PlacerRefs ==
    SelectSeq(InteractionGraph(gates).adj[Head(queue)],
              LAMBDA n : n \in DOMAIN mapping)

PlacerCandidates ==
    IF PlacerRefs = <<>> THEN <<>>
    ELSE SelectSeq(CouplingGraph(coupling_graph).adj[mapping[PlacerRefs[1]]],
                   LAMBDA x : x \notin mapped_qubits)

\* The unused physical qubits at the least hop distance from the image of
\* some mapped reference.
NearestUnused ==
    LET Gc == CouplingGraph(coupling_graph)
        unused == Nodes(coupling_graph) \ mapped_qubits
        Near(u) == SetMin({shortest_path_length(Gc, mapping[r], u)
                              : r \in Range(PlacerRefs)})
    IN  {u \in unused : \A v \in unused : Near(u) <= Near(v)}

\* C12: when the candidate list of the qubit being placed is empty, the
\* placer does not raise: it gives the qubit an unused physical qubit nearest
\* to a mapped reference and goes on placing.
C12_FallbackWhenNoCandidate ==
    [][(PlacingQubit /\ PlacerCandidates = <<>>)
           => /\ pc' = "place"
              /\ Head(queue) \in DOMAIN mapping'
              /\ mapping'[Head(queue)] \in NearestUnused]_vars

\* The number of SWAP records in a log.
SwapsIn(ops) == Cardinality({k \in 1 .. Len(ops) : ops[k][1] = "swap"})

\* C13: every step of the router that exchanges the mapping appends exactly
\* one SWAP record to the log, and no other step appends one.
C13_OneRecordPerExchange ==
    [][prog = "router" =>
          SwapsIn(operations') - SwapsIn(operations)
              = (IF current_mapping' # current_mapping THEN 1 ELSE 0)]_vars

\* The mapping that results from m when the SWAP records among the first k
\* records of ops are carried out in order.
RECURSIVE Relocated(_, _, _)
Relocated(m, ops, k) ==
    IF k = 0 THEN m
    ELSE IF ops[k][1] = "swap"
         THEN ExchangePhysical(Relocated(m, ops, k - 1), ops[k][2], ops[k][3])
         ELSE Relocated(m, ops, k - 1)

\* C15: when optimize_circuit passes a single-qubit operation on logical q,
\* it appends exactly one record, on the physical qubit that holds q once the
\* SWAPs already in the output (those of earlier instructions) are carried
\* out from the initial mapping; SWAPs of later instructions come after it.
C15_SingleQubitOnCurrentPosition ==
    [][(/\ prog = "optimizer" /\ pc = "loop" /\ idx < Len(gates)
        /\ Len(gates[idx + 1]) = 1 /\ idx' = idx + 1)
           => operations' = Append(operations,
                  <<"u", Relocated(initial_mapping, operations,
                                   Len(operations))[gates[idx + 1][1]]>>)]_vars

\* A finished run whose single-qubit operation went to a physical qubit that
\* is neither the initial nor the final place of its logical qubit.
C15_Witness ==
    /\ prog = "optimizer" /\ pc = "done"
    /\ Len(gates) = 3 /\ Len(gates[2]) = 1
    /\ \E k \in 1 .. Len(operations) :
           /\ operations[k][1] = "u"
           /\ operations[k][2] # initial_mapping[gates[2][1]]
           /\ operations[k][2] # current_mapping[gates[2][1]]
           /\ operations[k][2] = Relocated(initial_mapping, operations, k)[gates[2][1]]

\* Logical qubit q is frozen with gate g at the head of its queue.
FrozenOn(q, g) == frozen[q] /\ DLHead(dlist[q]) = g

\* The head of q's queue is a gate that comes before g.
HeadEarlier(q, g) == DLHead(dlist[q]) # 0 /\ DLHead(dlist[q]) < g

\* C16: when a Scan step has ended, a gate is in act_list exactly when both
\* its endpoints are frozen with it at the head of their queues, it is in
\* fron_list exactly when one endpoint is frozen on it and the other
\* endpoint's head is an earlier gate, and no gate is in both lists or twice
\* in one.
C16_ListsAfterScan ==
    (prog = "router" /\ pc = "execute") =>
        \A g \in 1 .. Len(gates) :
            LET c == gates[g][1]
                t == gates[g][2]
            IN  /\ Contains(act_list, g) <=> (FrozenOn(c, g) /\ FrozenOn(t, g))
                /\ Contains(fron_list, g)
                       <=> \/ FrozenOn(c, g) /\ HeadEarlier(t, g)
                           \/ FrozenOn(t, g) /\ HeadEarlier(c, g)
                /\ ~(Contains(act_list, g) /\ Contains(fron_list, g))
                /\ Occurrences(act_list, g) <= 1
                /\ Occurrences(fron_list, g) <= 1

\* A Scan step has ended, after a SWAP, with one gate waiting in act_list
\* and another in fron_list.
C16_Witness ==
    /\ prog = "router" /\ pc = "execute"
    /\ act_list # <<>> /\ fron_list # <<>>
    /\ SwapsIn(operations) > 0

\* Gate g is registered: it is in fron_list or in act_list.
Registered(g) == Contains(fron_list, g) \/ Contains(act_list, g)

\* The head of q's queue is registered and has not been executed.
HeadPending(q) ==
    /\ dlist[q] # <<>>
    /\ Registered(DLHead(dlist[q]))
    /\ ~Contains(executed_gates, DLHead(dlist[q]))

BetweenIterations == prog = "router" /\ pc = "scan"

\* A qubit is unfrozen only by the execution of the head of its queue, and
\* the head of a frozen qubit is registered once.
FrozenDiscipline ==
    /\ \A q \in Logical :
           (frozen[q] /\ ~frozen'[q])
               => /\ Contains(executed_gates', DLHead(dlist[q]))
                  /\ ~Contains(executed_gates, DLHead(dlist[q]))
    /\ \A q \in Logical :
           frozen[q] => Occurrences(fron_list \o act_list, DLHead(dlist[q])) <= 1

NewlyExecuted == Range(executed_gates') \ Range(executed_gates)

\* C18: every gate g that an Execute step executes is, when the step reaches
\* it, the head of the queue of its control and of its target, so both
\* pop_front calls remove g; the step removes from each queue exactly the
\* executed gates of that qubit, from the front, and afterwards no gate is in
\* the queue of one of its endpoints without being in the other's.
C18_PoppedFromBothQueues ==
    [][(prog = "router" /\ pc = "execute")
           => /\ \A q \in Logical :
                    LET mine == {g \in NewlyExecuted : q \in Range(gates[g])}
                    IN  /\ Len(dlist'[q]) = Len(dlist[q]) - Cardinality(mine)
                        /\ dlist'[q] = SubSeq(dlist[q], Cardinality(mine) + 1,
                                              Len(dlist[q]))
                        /\ mine = {dlist[q][k] : k \in 1 .. Cardinality(mine)}
              /\ \A g \in 1 .. Len(gates) :
                    Contains(dlist'[gates[g][1]], g)
                        <=> Contains(dlist'[gates[g][2]], g)]_vars

\* An Execute step has executed a gate after a SWAP and left a later gate in
\* the queues of both its endpoints.
C18_Witness ==
    /\ prog = "router" /\ pc = "swap"
    /\ SwapsIn(operations) > 0
    /\ executed_gates # <<>>
    /\ \E q \in Logical : dlist[q] # <<>>

\* C19: the routing loop has exited only in a state where act_list and
\* fron_list are both empty and no unfrozen qubit has a gate left in its
\* queue.
C19_ExitOnlyWhenBothEmpty ==
    (prog = "router" /\ pc = "done")
        => /\ act_list = <<>>
           /\ fron_list = <<>>
           /\ \A q \in Logical : ~frozen[q] => dlist[q] = <<>>

\* The gates of the active list, as operand pairs: the router's act_list
\* holds gate numbers, the optimizer's holds the instructions themselves.
ActivePairs ==
    IF prog = "router" THEN [k \in 1 .. Len(act_list) |-> gates[act_list[k]]]
    ELSE act_list

\* The sum over the gates of pairs of the hop distance of the operands under
\* m minus their hop distance under m2.
RECURSIVE HopScore(_, _, _)
HopScore(pairs, m, m2) ==
    IF pairs = <<>> THEN 0
    ELSE HopDistance(coupling_graph, m[Head(pairs)[1]], m[Head(pairs)[2]])
             - HopDistance(coupling_graph, m2[Head(pairs)[1]], m2[Head(pairs)[2]])
             + HopScore(Tail(pairs), m, m2)

\* The applied exchange is scored positively, and no edge is scored higher,
\* over the gates of pairs.
PositiveMaximal(pairs) ==
    /\ HopScore(pairs, current_mapping, current_mapping') > 0
    /\ \A e \in EdgeSet(coupling_graph) : \A a, b \in e :
           a # b => HopScore(pairs, current_mapping,
                             ExchangePhysical(current_mapping, a, b))
                        <= HopScore(pairs, current_mapping, current_mapping')

\* C20: every SWAP that the router or the optimizer applies has a strictly
\* positive score, the sum over the active gates of the hop distance of the
\* operands before the exchange minus their hop distance after it, and no
\* topology edge has a strictly larger score in that state; for the
\* optimizer the value find_best_swap computes for the SWAP counts as well.
C20_AppliedSwapPositiveMaximal ==
    [][(IsRouting /\ current_mapping' # current_mapping)
           => \/ PositiveMaximal(ActivePairs)
              \/ /\ prog = "optimizer"
                 /\ find_best_swap(coupling_graph, gates, idx + 1,
                                   current_mapping, distances).mcpe > 0]_vars

\* ------------------------------- dl_dm.py: graphs, queues and distances

\* dag.two_qubit_ops(): the two-qubit operations, in program order.
two_qubit_ops(gs) == SelectSeq(gs, LAMBDA g : Len(g) = 2)

\* tuple(sorted(qubits))
qubit_pair(g) == IF g[1] <= g[2] THEN <<g[1], g[2]>> ELSE <<g[2], g[1]>>

EmptyDict == [x \in {} |-> 0]

\* d[k] = v
DictSet(d, k, v) == [x \in DOMAIN d \cup {k} |-> IF x = k THEN v ELSE d[x]]

\* A faulty record: the latest gate number of the pair, not the first.
record_first_latest(first, pair, gate_number) == DictSet(first, pair, gate_number)

\* Lines 32-34: the gate number is recorded for a pair not seen before.
record_first(first, pair, gate_number) ==
    IF pair \in DOMAIN first THEN first ELSE DictSet(first, pair, gate_number)

\* nx.Graph(): nodes and neighbours in insertion order, and the weight
\* attribute of each edge, keyed by the sorted pair.
EmptyGraph == [nodes |-> <<>>, adj |-> EmptyDict, weight |-> EmptyDict]

AppendNew(s, x) == IF Contains(s, x) THEN s ELSE Append(s, x)

\* G.add_edge(u, v, weight=w): the nodes and the edge are created when
\* missing, and the weight attribute is set in either case.
add_edge(G, u, v, w) ==
    LET nodes == AppendNew(AppendNew(G.nodes, u), v)
        Old(x) == IF x \in DOMAIN G.adj THEN G.adj[x] ELSE <<>>
    IN  [nodes |-> nodes,
         adj |-> [x \in Range(nodes) |->
                     IF x = u THEN AppendNew(Old(x), v)
                     ELSE IF x = v THEN AppendNew(Old(x), u)
                     ELSE Old(x)],
         weight |-> DictSet(G.weight, qubit_pair(<<u, v>>), w)]

\* G.has_edge(u, v)
graph_has_edge(G, u, v) == qubit_pair(<<u, v>>) \in DOMAIN G.weight

\* dl_dm.py lines 44-48: one add_edge per entry of interaction_edges.
RECURSIVE AddEdges(_, _)
AddEdges(edges, n) ==
    IF n = 0 THEN EmptyGraph
    ELSE add_edge(AddEdges(edges, n - 1), edges[n][1], edges[n][2], edges[n][3])

\* dl_dm.py lines 75-83: 0 for a node and itself, nx.shortest_path_length
\* for every other pair.
distance_matrix(cg) ==
    LET Gc == CouplingGraph(cg)
    IN  [node1 \in Range(Gc.nodes) |->
            [node2 \in Range(Gc.nodes) |->
                IF node1 # node2 THEN shortest_path_length(Gc, node1, node2)
                ELSE 0]]

\* The connected topologies the script is run on.
DlDmTopologies == {Line3, Line4, Star4, Ring4}

\* Values of the routers' variables that the graph builders do not use.
BuilderUnused ==
    /\ n_qubits = NumLogical
    /\ initial_mapping = <<>>
    /\ current_mapping = <<>>
    /\ fron_list = <<>>
    /\ act_list = <<>>
    /\ frozen = <<>>
    /\ operations = <<>>
    /\ executed_gates = <<>>
    /\ NoPlacer

InitDlDm ==
    /\ prog = "dl_dm"
    /\ pc = "gates"
    /\ coupling_graph \in DlDmTopologies
    /\ gates \in GateLists \cup SingleQubitCircuits
    /\ idx = 0
    /\ interaction_edges = <<>>
    /\ first_interaction = EmptyDict
    /\ dlist = EmptyDict
    /\ interaction_graph = <<>>
    /\ edge_counts = <<>>
    /\ distances = <<>>
    /\ BuilderUnused

BuilderUnchanged ==
    UNCHANGED <<prog, coupling_graph, gates, n_qubits, initial_mapping,
                current_mapping, fron_list, act_list, frozen, operations,
                executed_gates, mapping, mapped_qubits, queue,
                edge_counts>>

\* Lines 27-42: one iteration of the loop over the two-qubit operations;
\* idx is gate_number.
DlDmGate ==
    /\ prog = "dl_dm" /\ pc = "gates"
    /\ idx < Len(two_qubit_ops(gates))
    /\ LET gate == two_qubit_ops(gates)[idx + 1]
           pair == qubit_pair(gate)
           first == record_first(first_interaction, pair, idx)
           Deps(q) == IF q \in DOMAIN dlist THEN dlist[q] ELSE <<>>
           d1 == DictSet(dlist, gate[1], Append(Deps(gate[1]), idx))
           Deps1(q) == IF q \in DOMAIN d1 THEN d1[q] ELSE <<>>
       IN  /\ first_interaction' = first
           /\ interaction_edges' =
                  Append(interaction_edges, <<gate[1], gate[2], first[pair]>>)
           /\ dlist' = DictSet(d1, gate[2], Append(Deps1(gate[2]), idx))
    /\ idx' = idx + 1
    /\ UNCHANGED <<pc, interaction_graph, distances>>
    /\ BuilderUnchanged

\* Lines 44-48: the interaction graph Gd.
DlDmGraph ==
    /\ prog = "dl_dm" /\ pc = "gates"
    /\ idx >= Len(two_qubit_ops(gates))
    /\ interaction_graph' = AddEdges(interaction_edges, Len(interaction_edges))
    /\ pc' = "graph"
    /\ UNCHANGED <<idx, interaction_edges, first_interaction, dlist, distances>>
    /\ BuilderUnchanged

\* Lines 50-83: the coupling graph Gc and the distance matrix.
DlDmDistances ==
    /\ prog = "dl_dm" /\ pc = "graph"
    /\ IsConnected(CouplingGraph(coupling_graph))
    /\ distances' = distance_matrix(coupling_graph)
    /\ pc' = "done"
    /\ UNCHANGED <<idx, interaction_edges, first_interaction, dlist,
                   interaction_graph>>
    /\ BuilderUnchanged

NextDlDm == DlDmGate \/ DlDmGraph \/ DlDmDistances

SpecDlDm == InitDlDm /\ [][NextDlDm]_vars

\* The three programs that build a distance matrix.
InitMatrices == InitRouter \/ InitOptimizer \/ InitDlDm

NextMatrices == NextRouter \/ NextOptimizer \/ NextDlDm

SpecMatrices == InitMatrices /\ [][NextMatrices]_vars

\* ------------------------- interaction_graph.py: generate_interaction_graph

\* Lines 52-58: an edge is added, with its weight and count, only when the
\* graph does not have it yet.
RECURSIVE AddNewEdges(_, _, _)
AddNewEdges(edges, counts, n) ==
    IF n = 0
    THEN [nodes |-> <<>>, adj |-> EmptyDict, weight |-> EmptyDict,
          count |-> EmptyDict]
    ELSE LET G == AddNewEdges(edges, counts, n - 1)
             pair == qubit_pair(<<edges[n][1], edges[n][2]>>)
             H == add_edge(G, edges[n][1], edges[n][2], edges[n][3])
         IN  IF graph_has_edge(G, edges[n][1], edges[n][2]) THEN G
             ELSE [nodes |-> H.nodes, adj |-> H.adj, weight |-> H.weight,
                   count |-> DictSet(G.count, pair, counts[pair])]

InitIg ==
    /\ prog = "interaction_graph"
    /\ pc = "gates"
    /\ coupling_graph = <<>>
    /\ gates \in GateLists \cup SingleQubitCircuits
    /\ idx = 0
    /\ interaction_edges = <<>>
    /\ first_interaction = EmptyDict
    /\ edge_counts = EmptyDict
    /\ dlist = <<>>
    /\ interaction_graph = <<>>
    /\ distances = <<>>
    /\ BuilderUnused

\* Lines 35-48: one iteration of the loop over the two-qubit operations;
\* idx is gate_number.
IgGate ==
    /\ prog = "interaction_graph" /\ pc = "gates"
    /\ idx < Len(two_qubit_ops(gates))
    /\ LET gate == two_qubit_ops(gates)[idx + 1]
           pair == qubit_pair(gate)
           first == record_first(first_interaction, pair, idx)
           Count(p) == IF p \in DOMAIN edge_counts THEN edge_counts[p] ELSE 0
       IN  /\ first_interaction' = first
           /\ edge_counts' = DictSet(edge_counts, pair, Count(pair) + 1)
           /\ interaction_edges' =
                  Append(interaction_edges, <<gate[1], gate[2], first[pair]>>)
    /\ idx' = idx + 1
    /\ UNCHANGED <<pc, interaction_graph, distances, dlist>>
    /\ UNCHANGED <<prog, coupling_graph, gates, n_qubits, initial_mapping,
                   current_mapping, fron_list, act_list, frozen, operations,
                   executed_gates, mapping, mapped_qubits, queue>>

\* Lines 50-60: the graph G is built and returned.
IgGraph ==
    /\ prog = "interaction_graph" /\ pc = "gates"
    /\ idx >= Len(two_qubit_ops(gates))
    /\ interaction_graph' = AddNewEdges(interaction_edges, edge_counts,
                                        Len(interaction_edges))
    /\ pc' = "done"
    /\ UNCHANGED <<idx, interaction_edges, first_interaction, dlist, distances>>
    /\ BuilderUnchanged

NextIg == IgGate \/ IgGraph

\* The two programs that build a weighted interaction graph.
InitGraphs == InitDlDm \/ InitIg

NextGraphs == NextDlDm \/ NextIg

SpecGraphs == InitGraphs /\ [][NextGraphs]_vars

\* The two programs that build dependency queues.
InitQueues == InitRouter \/ InitDlDm

NextQueues == NextRouter \/ NextDlDm

SpecQueues == InitQueues /\ [][NextQueues]_vars

\* ------------------------------------------------ im.py: the placement script

\* The decimal digits of n (below 100), the text after 'Q' in the label 'Qn'.
Digits(n) == IF n < 10 THEN <<n>> ELSE <<n \div 10, n % 10>>

\* 'Qa' < 'Qb' as Python compares strings: by the first differing character,
\* a proper prefix first.
LabelLess(a, b) ==
    LET x == Digits(a)
        y == Digits(b)
    IN  \/ x[1] < y[1]
        \/ /\ x[1] = y[1]
           /\ \/ Len(x) < Len(y)
              \/ Len(x) = 2 /\ Len(y) = 2 /\ x[2] < y[2]

\* min() over a set of 'Q..' labels.
LabelMin(S) == CHOOSE x \in S : \A y \in S \ {x} : LabelLess(x, y)

\* A line of four with a leaf on Q2: the centres are Q1 and Q2.
Line4Leaf ==
    << <<0, <<1>>>>, <<1, <<0, 2>>>>, <<2, <<1, 3, 4>>>>, <<3, <<2>>>>,
       <<4, <<2>>>> >>

\* Two coupled qubits labelled Q2 and Q10.
PairQ2Q10 == << <<2, <<10>>>>, <<10, <<2>>>> >>

ImTopologies == {Line3, Star4, Line4Leaf, PairQ2Q10}

InitIm ==
    /\ prog = "im"
    /\ pc = "start"
    /\ coupling_graph \in ImTopologies
    /\ gates \in GateLists
    /\ n_qubits = NumLogical
    /\ mapping = EmptyMapping
    /\ mapped_qubits = {}
    /\ queue = <<>>
    /\ NoRouter
    /\ NoBuilder

\* Lines 42 and 75: nx.center raises on an empty or disconnected graph.
ImCenterError ==
    /\ prog = "im" /\ pc = "start"
    /\ ~(IsConnected(InteractionGraph(gates))
         /\ IsConnected(CouplingGraph(coupling_graph)))
    /\ pc' = "crash"
    /\ UNCHANGED <<mapping, mapped_qubits, queue>>
    /\ PlacerUnchanged

\* Lines 41-87: the seeds are min() of the centres, then the BFS order and
\* the first assignment.
ImSeed ==
    /\ prog = "im" /\ pc = "start"
    /\ IsConnected(InteractionGraph(gates))
    /\ IsConnected(CouplingGraph(coupling_graph))
    /\ LET Gd == InteractionGraph(gates)
           Gc == CouplingGraph(coupling_graph)
           interaction_center == SetMin(Center(Gd))
           coupling_center == LabelMin(Center(Gc))
       IN  /\ mapping' = Assign(mapping, interaction_center, coupling_center)
           /\ mapped_qubits' = mapped_qubits \cup {coupling_center}
           /\ queue' = Tail(bfs_traversal(Gd, interaction_center))
    /\ pc' = "place"
    /\ PlacerUnchanged

\* Lines 89-109: one iteration of the placement loop.
ImPlace ==
    /\ prog = "im" /\ pc = "place"
    /\ queue # <<>>
    /\ LET loc == select_location(Head(queue), mapping, mapped_qubits,
                                  InteractionGraph(gates),
                                  CouplingGraph(coupling_graph))
       IN  /\ loc # -1
           /\ mapping' = Assign(mapping, Head(queue), loc)
           /\ mapped_qubits' = mapped_qubits \cup {loc}
    /\ queue' = Tail(queue)
    /\ pc' = "place"
    /\ PlacerUnchanged

\* Line 107: max() of an empty candidate list raises ValueError.
ImRaises ==
    /\ prog = "im" /\ pc = "place"
    /\ queue # <<>>
    /\ select_location(Head(queue), mapping, mapped_qubits,
                       InteractionGraph(gates),
                       CouplingGraph(coupling_graph)) = -1
    /\ queue' = Tail(queue)
    /\ pc' = "crash"
    /\ UNCHANGED <<mapping, mapped_qubits>>
    /\ PlacerUnchanged

\* Lines 111-114: the loop ends and the mapping is printed.
ImDone ==
    /\ prog = "im" /\ pc = "place"
    /\ queue = <<>>
    /\ pc' = "done"
    /\ UNCHANGED <<mapping, mapped_qubits, queue>>
    /\ PlacerUnchanged

NextIm == ImCenterError \/ ImSeed \/ ImPlace \/ ImRaises \/ ImDone

SpecIm == InitIm /\ [][NextIm]_vars

\* --------------------------------------------------- claims C21 .. C29

\* Every node of the topology is reachable from every other.
ConnectedTopology(cg) ==
    \A a, b \in Nodes(cg) : HopDistance(cg, a, b) >= 0

\* C21: on a connected topology, whenever act_list is not empty after the
\* Execute step, some candidate edge has a strictly positive cost, so the
\* SWAP selection has a SWAP to apply.
C21_PositiveSwapExists ==
    (/\ prog = "router" /\ pc = "swap" /\ act_list # <<>>
     /\ ConnectedTopology(coupling_graph))
        => mcpe_costs(coupling_graph, gates, act_list, current_mapping,
                      distances) # <<>>

\* The entry of the distance matrix in the router's float representation.
MatrixEntry(i, j) ==
    IF prog = "router" THEN distances[i][j] ELSE Fin(distances[i][j])

MatrixBuilt ==
    \/ prog \in {"router", "optimizer"}
    \/ prog = "dl_dm" /\ pc = "done"

Hops(i, j) == MatrixEntry(i, j)[2]

\* C22: on a connected topology the distance matrix holds the hop count of
\* every pair of physical qubits: every entry is a finite number, 0 exactly
\* on the diagonal, 1 exactly for adjacent pairs, symmetric, and one more
\* than the least entry to a neighbour of the target for any other pair.
C22_DistancesAreHopCounts ==
    (MatrixBuilt /\ ConnectedTopology(coupling_graph)) =>
        /\ DOMAIN distances = Nodes(coupling_graph)
        /\ \A i, j \in Nodes(coupling_graph) :
              /\ MatrixEntry(i, j)[1] = "fin"
              /\ Hops(i, j) \in Nat
              /\ Hops(i, j) = 0 <=> i = j
              /\ Hops(i, j) = 1 <=> (i # j /\ {i, j} \in EdgeSet(coupling_graph))
              /\ Hops(i, j) = Hops(j, i)
              /\ i # j =>
                    \E k \in Nodes(coupling_graph) :
                        /\ {k, j} \in EdgeSet(coupling_graph)
                        /\ MatrixEntry(i, k)[1] = "fin"
                        /\ Hops(i, j) = Hops(i, k) + 1
                        /\ \A l \in Nodes(coupling_graph) :
                               {l, j} \in EdgeSet(coupling_graph)
                                   => Hops(i, k) <= Hops(i, l)

\* The logical qubits whose image differs between two mappings.
Moved(m, n) == {q \in DOMAIN m : n[q] # m[q]}

\* The step in which a SWAP may be applied: lines 122-152 of swap.py and
\* lines 143-159 of unoptswaps.py.
AtSwapStep ==
    \/ prog = "router" /\ pc = "swap"
    \/ OptAtTwoQubit /\ ~has_edge(coupling_graph, mapped_control, mapped_target)

\* The mapping n is m with the holders of p1 and p2 exchanged.
HoldersExchanged(m, n, p1, p2) ==
    \A q \in DOMAIN m :
        n[q] = IF m[q] = p1 THEN p2 ELSE IF m[q] = p2 THEN p1 ELSE m[q]

\* C23: the routing mapping changes only in the SWAP step; such a step
\* exchanges the images of at most two logical qubits, the holders of two
\* physical qubits p1 and p2, and leaves every other image as it was; the
\* initial mapping is never modified.
C23_MappingChangesOnlyBySwap ==
    [][/\ initial_mapping' = initial_mapping
       /\ DOMAIN current_mapping' = DOMAIN current_mapping
       /\ current_mapping' # current_mapping =>
             /\ AtSwapStep
             /\ Cardinality(Moved(current_mapping, current_mapping')) <= 2
             /\ \E p1, p2 \in Nodes(coupling_graph) :
                    HoldersExchanged(current_mapping, current_mapping', p1, p2)]_vars

\* A SWAP has been applied: two logical qubits hold each other's first image
\* and a third is where it started.
C23_Witness ==
    /\ prog \in {"router", "optimizer"}
    /\ \E a, b, c \in DOMAIN current_mapping :
          /\ a # b /\ c \notin {a, b}
          /\ current_mapping[a] = initial_mapping[b]
          /\ current_mapping[b] = initial_mapping[a]
          /\ current_mapping[c] = initial_mapping[c]
    /\ Moved(initial_mapping, current_mapping) # {}

\* The node s is a centre of G of maximum degree and, among those, the one
\* of smallest numeric id.
IsRuleSeed(G, s) ==
    /\ s \in Range(G.nodes)
    /\ \A u \in Range(G.nodes) : Eccentricity(G, s) <= Eccentricity(G, u)
    /\ \A c \in Range(G.nodes) :
          Eccentricity(G, c) = Eccentricity(G, s) =>
              \/ Degree(G, c) < Degree(G, s)
              \/ Degree(G, c) = Degree(G, s) /\ s <= c

\* C24: once the seed is placed, some logical qubit that is the rule's seed
\* of the interaction graph (a centre, of maximum degree, of smallest
\* numeric id) is mapped to the rule's seed of the topology, in
\* get_qubit_mapping and in im.py alike.
C24_SeedsByCenterDegreeId ==
    (prog \in {"placer", "im"} /\ DOMAIN mapping # {}) =>
        \E s \in DOMAIN mapping :
            /\ IsRuleSeed(InteractionGraph(gates), s)
            /\ IsRuleSeed(CouplingGraph(coupling_graph), mapping[s])

\* The candidates that remain for the qubit being placed once every further
\* reference has narrowed them (lines 120-126).
PlacerRemaining ==
    IF PlacerRefs = <<>> THEN <<>>
    ELSE Narrow(PlacerCandidates, Tail(PlacerRefs), mapping,
                CouplingGraph(coupling_graph))

\* Among the physical qubits of S, those of maximum topology degree.
MaxDegreeOf(S) ==
    {x \in S : \A y \in S : Degree(CouplingGraph(coupling_graph), y)
                               <= Degree(CouplingGraph(coupling_graph), x)}

\* C25: when more than one candidate remains for the qubit being placed, it
\* is given the candidate of maximum topology degree and, among those of
\* equal maximum degree, the one of lowest physical index, in whatever order
\* the adjacency lists are written.
C25_MaxDegreeThenLowestIndex ==
    [][(PlacingQubit /\ Len(PlacerRemaining) > 1)
           => /\ Head(queue) \in DOMAIN mapping'
              /\ mapping'[Head(queue)]
                    = SetMin(MaxDegreeOf(Range(PlacerRemaining)))]_vars

\* C26: whenever the image of the first mapped reference of the qubit being
\* placed has an unused physical neighbour, the qubit is placed on a physical
\* qubit that is adjacent to that image and was unused until this step.
C26_PlacedNextToFirstReference ==
    [][(PlacingQubit /\ PlacerCandidates # <<>>)
           => /\ Head(queue) \in DOMAIN mapping'
              /\ {mapping'[Head(queue)], mapping[PlacerRefs[1]]}
                     \in EdgeSet(coupling_graph)
              /\ mapping'[Head(queue)] # mapping[PlacerRefs[1]]
              /\ mapping'[Head(queue)] \notin mapped_qubits
              /\ mapped_qubits' = mapped_qubits \cup {mapping'[Head(queue)]}]_vars

\* Three logical qubits are placed and the two placed after the seed each
\* sit next to the image of a qubit they interact with.
C26_Witness ==
    /\ prog = "placer" /\ pc = "done"
    /\ Cardinality(DOMAIN mapping) = 3
    /\ Cardinality(mapped_qubits) = 3
    /\ \E s \in DOMAIN mapping :
          \A q \in DOMAIN mapping \ {s} :
              \E r \in Range(InteractionGraph(gates).adj[q]) :
                  {mapping[q], mapping[r]} \in EdgeSet(coupling_graph)

GraphBuilt ==
    /\ prog \in {"dl_dm", "interaction_graph"}
    /\ pc \in {"graph", "done"}

\* The sets {a, b} of logical qubits that some two-qubit gate acts on.
SharedPairs ==
    {Range(gates[k]) : k \in {j \in 1 .. Len(gates) : Len(gates[j]) = 2}}

\* The number of two-qubit gates before the first gate on the qubits of P.
FirstGateNumber(P) ==
    LET pos == SetMin({k \in 1 .. Len(gates) :
                          Len(gates[k]) = 2 /\ Range(gates[k]) = P})
    IN  Cardinality({j \in 1 .. (pos - 1) : Len(gates[j]) = 2})

\* C27: the built interaction graph has exactly one undirected edge for each
\* unordered pair of logical qubits that share a two-qubit gate, and the
\* weight of the edge is the 0-based index, counting two-qubit gates only, of
\* the first gate on that pair, whatever gates on the pair come later.
C27_OneEdgePerPairFirstWeight ==
    GraphBuilt =>
        LET G == interaction_graph
        IN  /\ Range(G.nodes) = UNION SharedPairs
            /\ DOMAIN G.adj = Range(G.nodes)
            /\ \A u \in Range(G.nodes) :
                  /\ \A i, j \in 1 .. Len(G.adj[u]) :
                        G.adj[u][i] = G.adj[u][j] => i = j
                  /\ \A v \in Range(G.adj[u]) : u \in Range(G.adj[v])
            /\ UNION {{{u, v} : v \in Range(G.adj[u])} : u \in Range(G.nodes)}
                   = SharedPairs
            /\ {{p[1], p[2]} : p \in DOMAIN G.weight} = SharedPairs
            /\ Cardinality(DOMAIN G.weight) = Cardinality(SharedPairs)
            /\ \A p \in DOMAIN G.weight :
                  G.weight[p] = FirstGateNumber({p[1], p[2]})

\* A graph is built from a circuit in which a pair of qubits is used by the
\* first two-qubit gate and again, in the opposite operand order or after a
\* single-qubit operation, by a later one.
C27_Witness ==
    /\ GraphBuilt
    /\ \E k \in 2 .. Len(gates) :
          /\ Len(gates[k]) = 2
          /\ Range(gates[k]) = Range(gates[1])
          /\ gates[k] # gates[1] \/ Len(gates[k - 1]) = 1
    /\ interaction_graph.weight[qubit_pair(gates[1])] = 0

\* The source positions, in program order, of the two-qubit gates among the
\* positions K that have q as an operand.
GatesOn(q, K) ==
    SelectSeq([k \in 1 .. Len(gates) |-> k],
              LAMBDA k : k \in K /\ Len(gates[k]) = 2 /\ q \in Range(gates[k]))

\* The record that stands for the gate at source position k: the Gate object
\* of swap.py (one per position), the gate_number of dl_dm.py.
GateRecord(k) ==
    IF prog = "router" THEN k
    ELSE Cardinality({j \in 1 .. (k - 1) : Len(gates[j]) = 2})

\* The gates the queues have been given and still hold: in swap.py all but
\* the executed ones, in dl_dm.py those the loop has passed.
QueuedPositions ==
    IF prog = "router" THEN (1 .. Len(gates)) \ Range(executed_gates)
    ELSE {k \in 1 .. Len(gates) : Len(gates[k]) = 2 /\ GateRecord(k) < idx}

QueueOf(q) == IF q \in DOMAIN dlist THEN dlist[q] ELSE <<>>

\* C28: the dependency queue of every logical qubit q holds exactly the
\* two-qubit gates with operand q, each occurrence once and in program
\* order, and a gate has the same record in the queue of its control and in
\* the queue of its target.
C28_QueuesHoldOperandGates ==
    prog \in {"router", "dl_dm"} =>
        /\ \A q \in Logical :
              /\ Len(QueueOf(q)) = Len(GatesOn(q, QueuedPositions))
              /\ \A i \in 1 .. Len(QueueOf(q)) :
                    QueueOf(q)[i] = GateRecord(GatesOn(q, QueuedPositions)[i])
        /\ \A k \in QueuedPositions :
              \E i \in 1 .. Len(QueueOf(gates[k][1])),
                 j \in 1 .. Len(QueueOf(gates[k][2])) :
                  /\ QueueOf(gates[k][1])[i] = GateRecord(k)
                  /\ QueueOf(gates[k][2])[j] = GateRecord(k)

\* The queues are complete for a circuit that repeats a pair of qubits:
\* both gates are in the queue of each of the two qubits.
C28_Witness ==
    /\ \/ prog = "router" /\ pc = "execute" /\ executed_gates = <<>>
       \/ prog = "dl_dm" /\ pc = "done"
    /\ Len(gates) >= 2
    /\ Len(gates[1]) = 2 /\ Len(gates[2]) = 2
    /\ Range(gates[1]) = Range(gates[2])
    /\ \A q \in Range(gates[1]) : Len(QueueOf(q)) = 2

\* The number of SWAP records at the end of the log.
TrailingSwaps ==
    Len(operations)
        - SetMax({0} \cup {k \in 1 .. Len(operations) : operations[k][1] # "swap"})

\* The mapping before the last j SWAP records of the log were carried out.
RECURSIVE BeforeSwaps(_)
BeforeSwaps(j) ==
    IF j = 0 THEN current_mapping
    ELSE LET m == BeforeSwaps(j - 1)
             rec == operations[Len(operations) - j + 1]
         IN  [q \in DOMAIN m |->
                 IF m[q] = rec[2] THEN rec[3]
                 ELSE IF m[q] = rec[3] THEN rec[2] ELSE m[q]]

\* C29: from a bijective initial mapping on a connected topology,
\* optimize_circuit terminates. Every instruction leaves a record other than
\* a SWAP in the log, so the SWAPs at the end of the log are those inserted
\* for the instruction at idx, and the next step is a function of idx and the
\* mapping: the loop ends exactly when the mapping never comes back to one it
\* had earlier at the same instruction.
C29_OptimizerTerminates ==
    (/\ prog = "optimizer"
     /\ ConnectedTopology(coupling_graph)
     /\ Injective(initial_mapping)
     /\ {initial_mapping[q] : q \in DOMAIN initial_mapping}
            = Nodes(coupling_graph))
        => \A j \in 1 .. TrailingSwaps : BeforeSwaps(j) # current_mapping

====
